---- MODULE Spec2Model ----
(***************************************************************************)
(* A model of RustScan's target parsing (src/address.rs).                  *)
(*                                                                         *)
(* Addresses are scaled down: an IPv4 address is a number of V4Bits bits   *)
(* and an IPv6 address a number of V6Bits bits (32 and 128 in the code).   *)
(* A string is modelled by what the parsers of the code make of it: a      *)
(* literal IP, a text of the form address/prefix-length, or anything else  *)
(* (a name: a hostname, a path, or neither).  What the operating system    *)
(* and the DNS resolver answer is the choice of the environment.           *)
(***************************************************************************)
EXTENDS Integers, Sequences, FiniteSets, TLC

\* ------------------------------------------------------------------ bounds
V4Bits == 2
V6Bits == 3
MaxTokens == 2
MaxLines == 2
MaxExcl == 1
MaxSpecs == 2
MaxParts == 2
MaxScripts == 2
MaxTags == 2
MaxPorts == 2

\* ------------------------------------------------------------- addresses
RECURSIVE Pow2(_)
Pow2(n) == IF n <= 0 THEN 1 ELSE 2 * Pow2(n - 1)

Families == {"v4", "v6"}

Bits(fam) == IF fam = "v4" THEN V4Bits ELSE V6Bits

Ip(fam, val) == [fam |-> fam, val |-> val]

IpAddr == UNION {{Ip(f, v) : v \in 0 .. (Pow2(Bits(f)) - 1)} : f \in Families}

NoAddr == Ip("none", 0)

\* ---------------------------------------------------------------- strings
\* The three shapes of text the parsers tell apart.
IpTok(a) == [form |-> "ip", addr |-> a, len |-> 0, name |-> ""]

CidrTok(a, n) == [form |-> "cidr", addr |-> a, len |-> n, name |-> ""]

NameTok(s) == [form |-> "name", addr |-> NoAddr, len |-> 0, name |-> s]

Names == {"a", "b"}

\* Every address/prefix-length text, the prefix lengths one past the width
\* included (these do not parse).
AllCidrToks ==
    UNION {{CidrTok(a, n) : n \in 0 .. (Bits(a.fam) + 1)} : a \in IpAddr}

AllTokens == {IpTok(a) : a \in IpAddr} \cup AllCidrToks \cup {NameTok(s) : s \in Names}

\* ---------------------------------------------------------------- parsers
Ok(v) == [ok |-> TRUE, val |-> v]

Err == [ok |-> FALSE, val |-> <<>>]

\* IpAddr::from_str: strict literal syntax only.
IpAddr_from_str(s) == IF s.form = "ip" THEN Ok(s.addr) ELSE Err

Inet(a, n) == [addr |-> a, len |-> n]

\* IpInet::from_str: an address with a prefix length within the width of its
\* family; the host bits may be set.  A bare address is a host of full length.
IpInet_from_str(s) ==
    IF s.form = "ip" THEN Ok(Inet(s.addr, Bits(s.addr.fam)))
    ELSE IF s.form = "cidr" /\ s.len <= Bits(s.addr.fam) THEN Ok(Inet(s.addr, s.len))
    ELSE Err

\* The number of addresses of a block of prefix length n.
BlockSize(fam, n) == Pow2(Bits(fam) - n)

\* (mutant) the address is taken as the start of the block as it is given.
network_untruncated(inet) == inet

\* IpInet::network: the address truncated to the prefix length.
network(inet) ==
    Inet(Ip(inet.addr.fam,
            inet.addr.val - (inet.addr.val % BlockSize(inet.addr.fam, inet.len))),
         inet.len)

\* IpCidr::iter().addresses(): first to last address of the block, ascending.
addresses_of(cidr) ==
    [k \in 1 .. BlockSize(cidr.addr.fam, cidr.len) |->
        Ip(cidr.addr.fam, cidr.addr.val + (k - 1))]

\* (mutant) the exclusion parse truncates the address as the target parse does.
IpCidr_from_str_permissive(s) ==
    IF IpInet_from_str(s).ok THEN Ok(network(IpInet_from_str(s).val)) ELSE Err

\* IpCidr::from_str: strict, the host bits must be zero.
IpCidr_from_str(s) ==
    IF IpInet_from_str(s).ok /\ network(IpInet_from_str(s).val) = IpInet_from_str(s).val
    THEN IpInet_from_str(s)
    ELSE Err

\* IpCidr::new_host
new_host(a) == Inet(a, Bits(a.fam))

\* IpCidr::contains
contains(cidr, a) ==
    /\ a.fam = cidr.addr.fam
    /\ a.val - (a.val % BlockSize(cidr.addr.fam, cidr.len)) = cidr.addr.val

\* ------------------------------------------------------------ environment
\* What a lookup answers: an error, or a sequence of addresses (which the
\* type allows to be empty).
AnswerAddrs == {Ip("v4", 1), Ip("v4", Pow2(V4Bits) - 1)}

Answers ==
    {<<>>} \cup {<<x>> : x \in AnswerAddrs} \cup {<<x, y>> : x, y \in AnswerAddrs}

Lookups == {Err} \cup {Ok(s) : s \in Answers}

\* ------------------------------------------------------ hostname resolution
\* resolve_ips_from_host: `os` is what source.to_socket_addrs() answers and
\* `rs` what backup_resolver.lookup_ip(source) answers.
resolve_ips_from_host(source, os, rs) ==
    IF os.ok THEN [ips |-> os.val, lookups |-> <<"os">>]
    ELSE IF rs.ok THEN [ips |-> rs.val, lookups |-> <<"os", "resolver">>]
    ELSE [ips |-> <<>>, lookups |-> <<"os", "resolver">>]

\* (mutant) every address of the OS answer is returned, not only the first.
parse_address_all(address, os80, os, rs) ==
    IF IpAddr_from_str(address).ok
    THEN [panicked |-> FALSE, ips |-> <<IpAddr_from_str(address).val>>, lookups |-> <<>>]
    ELSE IF IpInet_from_str(address).ok
    THEN [panicked |-> FALSE,
          ips |-> addresses_of(network(IpInet_from_str(address).val)),
          lookups |-> <<>>]
    ELSE IF os80.ok
    THEN [panicked |-> os80.val = <<>>, ips |-> os80.val, lookups |-> <<"os80">>]
    ELSE [panicked |-> FALSE,
          ips |-> resolve_ips_from_host(address, os, rs).ips,
          lookups |-> <<"os80">> \o resolve_ips_from_host(address, os, rs).lookups]

\* parse_address: `os80` is what "{address}:80".to_socket_addrs() answers.
\* `panicked` is the unwrap of iter.next() on an empty answer.
parse_address(address, os80, os, rs) ==
    IF IpAddr_from_str(address).ok
    THEN [panicked |-> FALSE, ips |-> <<IpAddr_from_str(address).val>>, lookups |-> <<>>]
    ELSE IF IpInet_from_str(address).ok
    THEN [panicked |-> FALSE,
          ips |-> addresses_of(network(IpInet_from_str(address).val)),
          lookups |-> <<>>]
    ELSE IF os80.ok
    THEN IF os80.val = <<>>
         THEN [panicked |-> TRUE, ips |-> <<>>, lookups |-> <<"os80">>]
         ELSE [panicked |-> FALSE, ips |-> <<Head(os80.val)>>, lookups |-> <<"os80">>]
    ELSE [panicked |-> FALSE,
          ips |-> resolve_ips_from_host(address, os, rs).ips,
          lookups |-> <<"os80">> \o resolve_ips_from_host(address, os, rs).lookups]

\* --------------------------------------------------------------- exclusions
\* Option<Vec<String>>
None == [some |-> FALSE, list |-> <<>>]

Some(l) == [some |-> TRUE, list |-> l]

\* The answers of the two lookups resolve_ips_from_host may make for one spec.
Env(os, rs) == [os |-> os, rs |-> rs]

\* (mutant) a hostname excludes only the first address it resolves to.
parse_single_excluded_first(addr, env) ==
    IF IpCidr_from_str(addr).ok THEN <<IpCidr_from_str(addr).val>>
    ELSE IF IpAddr_from_str(addr).ok THEN <<new_host(IpAddr_from_str(addr).val)>>
    ELSE [k \in 1 .. (IF resolve_ips_from_host(addr, env.os, env.rs).ips = <<>> THEN 0 ELSE 1) |->
            new_host(resolve_ips_from_host(addr, env.os, env.rs).ips[k])]

\* parse_single_excluded_address
parse_single_excluded_address(addr, env) ==
    IF IpCidr_from_str(addr).ok THEN <<IpCidr_from_str(addr).val>>
    ELSE IF IpAddr_from_str(addr).ok THEN <<new_host(IpAddr_from_str(addr).val)>>
    ELSE [k \in 1 .. Len(resolve_ips_from_host(addr, env.os, env.rs).ips) |->
            new_host(resolve_ips_from_host(addr, env.os, env.rs).ips[k])]

RECURSIVE flat_map_excluded(_, _)
flat_map_excluded(list, envs) ==
    IF list = <<>> THEN <<>>
    ELSE parse_single_excluded_address(Head(list), Head(envs))
         \o flat_map_excluded(Tail(list), Tail(envs))

\* parse_excluded_networks: envs[k] holds the answers for the k-th spec.
parse_excluded_networks(exclude_addresses, envs) ==
    IF exclude_addresses.some THEN flat_map_excluded(exclude_addresses.list, envs) ELSE <<>>

\* ------------------------------------------------------------------- retain
RECURSIVE retain_pass(_, _, _)
retain_pass(rest, seen, excluded) ==
    IF rest = <<>> THEN <<>>
    ELSE (IF Head(rest) \notin seen
             /\ ~(\E k \in 1 .. Len(excluded) : contains(excluded[k], Head(rest)))
          THEN <<Head(rest)>> ELSE <<>>)
         \o retain_pass(Tail(rest), seen \cup {Head(rest)}, excluded)

\* (mutant) excluded addresses are dropped, repeated ones are kept.
retain_excluded_only(list, excluded) ==
    SelectSeq(list, LAMBDA a : ~(\E k \in 1 .. Len(excluded) : contains(excluded[k], a)))

\* (mutant) of a repeated address the last occurrence is kept, not the first.
retain_last_occurrence(list, excluded) ==
    LET keep == {k \in 1 .. Len(list) :
                    /\ \A j \in (k + 1) .. Len(list) : list[j] # list[k]
                    /\ ~(\E e \in 1 .. Len(excluded) : contains(excluded[e], list[k]))}
        nth(p) == CHOOSE k \in keep : Cardinality({j \in keep : j <= k}) = p
    IN  [p \in 1 .. Cardinality(keep) |-> list[nth(p)]]

\* (mutant) repeated addresses are dropped, excluded ones are kept.
retain_seen_only(list, excluded) == retain_pass(list, {}, <<>>)

\* ips.retain(|ip| seen.insert(*ip) && !excluded_cidrs.iter().any(..)) from an empty seen
retain(list, excluded) == retain_pass(list, {}, excluded)

\* ==================================================================== state
VARIABLES
    addresses,            \* Opts.addresses: the target tokens
    exclude_addresses,    \* Opts.exclude_addresses
    fs,                   \* the file system: what each name is on disk
    pc,                   \* position in parse_addresses
    i,                    \* index of the token (first loop) or unresolved token (second loop)
    ips,                  \* the Vec<IpAddr> being built, then the result
    unresolved_addresses, \* tokens that classified to nothing
    warnings,             \* the tokens warning!() was called with, in order
    file_ips,             \* the local Vec of read_ips_from_file
    nlines,               \* lines read of the file being read
    excluded_cidrs,       \* the exclusion entries
    parsed,               \* per token, what parse_address returned for it
    file_results,         \* per unresolved token, what its file contributed
    opened,               \* the paths File::open was called with
    last_line,            \* the line read by the last step of read_ips_from_file
    h_fn, h_in, h_out     \* a single call of one function: which, its input, its result

main_vars == <<addresses, exclude_addresses, fs, pc, i, ips, unresolved_addresses,
               warnings, file_ips, nlines, excluded_cidrs, parsed, file_results,
               opened, last_line>>

call_vars == <<h_fn, h_in, h_out>>

vars == <<main_vars, call_vars>>

\* ------------------------------------------------------------------- inputs
\* Sequences over S of length at most n.
RECURSIVE SeqsUpTo(_, _)
SeqsUpTo(S, n) ==
    IF n = 0 THEN {<<>>}
    ELSE SeqsUpTo(S, n - 1) \cup {Append(q, x) : q \in SeqsUpTo(S, n - 1), x \in S}

\* The target tokens and file lines of the pipeline: a literal,
\* a block given with host bits set, a block containing it, and two names.
Targets ==
    {IpTok(Ip("v4", 1)),
     CidrTok(Ip("v4", 1), V4Bits - 1), CidrTok(Ip("v4", 0), V4Bits - 2),
     NameTok("a"), NameTok("b")}

\* The exclusion specs of the pipeline: a host, a block, a block given with
\* host bits set, and a name.
Exclusions ==
    {IpTok(Ip("v4", 1)), CidrTok(Ip("v4", 0), V4Bits - 1),
     CidrTok(Ip("v4", 1), V4Bits - 1), NameTok("a")}

\* The answers a lookup gives in the pipeline.
DnsCases == {Err, Ok(<<>>), Ok(<<Ip("v4", 1), Ip("v6", 1)>>)}

\* The answers of the three lookups of parse_address.  A lookup is made only
\* when the one before it failed, so its answer is drawn only then.
DnsEnvs ==
    {[os80 |-> x, os |-> Err, rs |-> Err] : x \in DnsCases \ {Err}}
    \cup {[os80 |-> Err, os |-> x, rs |-> Err] : x \in DnsCases \ {Err}}
    \cup {[os80 |-> Err, os |-> Err, rs |-> x] : x \in DnsCases}

\* The answers of the two lookups of resolve_ips_from_host for a text.  A text
\* address/prefix-length is no socket address (it ends in no port) and no
\* domain name (a label holds no "/"): both lookups answer Err for it.
LookupEnvs(s) ==
    IF s.form = "cidr" THEN {Env(Err, Err)}
    ELSE {Env(e.os, e.rs) : e \in {d \in DnsEnvs : ~d.os80.ok}}

\* What a name is on disk: no regular file, a regular file that opens, or a
\* regular file that does not open.
FileKinds == {"absent", "file", "locked"}

\* A line of a file: a text, or a read error.
Lines == {Err} \cup {Ok(t) : t \in Targets}

NoLine == [ok |-> FALSE, val |-> <<"none">>]

NoCall == [fn |-> "none"]

CallIdle == h_fn = "none" /\ h_in = NoCall /\ h_out = NoCall

\* Path::is_file
is_file(path) == path.form = "name" /\ fs[path.name] # "absent"

\* File::open
File_open(path) == IF fs[path.name] = "file" THEN Ok(path) ELSE Err

Init ==
    /\ addresses \in SeqsUpTo(Targets, MaxTokens)
    /\ exclude_addresses \in {None} \cup {Some(l) : l \in SeqsUpTo(Exclusions, MaxExcl)}
    /\ fs \in [Names -> FileKinds]
    /\ pc = IF addresses = <<>> THEN "exclude" ELSE "tokens"
    /\ i = 1
    /\ ips = <<>>
    /\ unresolved_addresses = <<>>
    /\ warnings = <<>>
    /\ file_ips = <<>>
    /\ nlines = 0
    /\ excluded_cidrs = <<>>
    /\ parsed = <<>>
    /\ file_results = <<>>
    /\ opened = {}
    /\ last_line = NoLine
    /\ CallIdle

\* ------------------------------------------------------------------ actions
\* One iteration of the first loop: classify addresses[i].
ClassifyToken ==
    /\ pc = "tokens"
    /\ \E e \in DnsEnvs :
         LET r == parse_address(addresses[i], e.os80, e.os, e.rs) IN
         IF r.panicked
         THEN /\ pc' = "panicked"
              /\ UNCHANGED <<i, ips, unresolved_addresses, parsed>>
         ELSE /\ parsed' = Append(parsed, r.ips)
              /\ ips' = IF r.ips # <<>> THEN ips \o r.ips ELSE ips
              /\ unresolved_addresses' =
                    IF r.ips # <<>> THEN unresolved_addresses
                    ELSE Append(unresolved_addresses, addresses[i])
              /\ pc' = IF i < Len(addresses) THEN "tokens"
                       ELSE IF unresolved_addresses' # <<>> THEN "files" ELSE "exclude"
              /\ i' = IF i < Len(addresses) THEN i + 1 ELSE 1
    /\ UNCHANGED <<addresses, exclude_addresses, fs, warnings, file_ips, nlines,
                   excluded_cidrs, file_results, opened, last_line, call_vars>>

\* Where the second loop goes after unresolved_addresses[i].
NextFile ==
    /\ pc' = IF i < Len(unresolved_addresses) THEN "files" ELSE "exclude"
    /\ i' = IF i < Len(unresolved_addresses) THEN i + 1 ELSE 1

\* The second loop on a path that is no regular file: warn and continue.
WarnNotFile ==
    /\ pc = "files"
    /\ ~is_file(unresolved_addresses[i])
    /\ warnings' = Append(warnings, unresolved_addresses[i])
    /\ file_results' = Append(file_results, <<>>)
    /\ NextFile
    /\ UNCHANGED <<addresses, exclude_addresses, fs, ips, unresolved_addresses, file_ips,
                   nlines, excluded_cidrs, parsed, opened, last_line, call_vars>>

\* (mutant) a file that cannot be opened is skipped without a warning.
WarnUnreadable_silent ==
    /\ pc = "files"
    /\ is_file(unresolved_addresses[i])
    /\ ~File_open(unresolved_addresses[i]).ok
    /\ opened' = opened \cup {unresolved_addresses[i]}
    /\ file_results' = Append(file_results, <<>>)
    /\ NextFile
    /\ UNCHANGED <<addresses, exclude_addresses, fs, ips, unresolved_addresses, file_ips,
                   nlines, excluded_cidrs, parsed, last_line, call_vars, warnings>>

\* The second loop on a file that read_ips_from_file cannot open: warn.
WarnUnreadable ==
    /\ pc = "files"
    /\ is_file(unresolved_addresses[i])
    /\ ~File_open(unresolved_addresses[i]).ok
    /\ opened' = opened \cup {unresolved_addresses[i]}
    /\ warnings' = Append(warnings, unresolved_addresses[i])
    /\ file_results' = Append(file_results, <<>>)
    /\ NextFile
    /\ UNCHANGED <<addresses, exclude_addresses, fs, ips, unresolved_addresses, file_ips,
                   nlines, excluded_cidrs, parsed, last_line, call_vars>>

\* read_ips_from_file opens the file.
OpenFile ==
    /\ pc = "files"
    /\ is_file(unresolved_addresses[i])
    /\ File_open(unresolved_addresses[i]).ok
    /\ opened' = opened \cup {unresolved_addresses[i]}
    /\ pc' = "lines"
    /\ file_ips' = <<>>
    /\ nlines' = 0
    /\ UNCHANGED <<addresses, exclude_addresses, fs, i, ips, unresolved_addresses, warnings,
                   excluded_cidrs, parsed, file_results, last_line>>
    /\ UNCHANGED call_vars

\* (mutant) a line that classifies to nothing and names a file is opened.
ReadLine_recursive ==
    /\ pc = "lines"
    /\ nlines < MaxLines
    /\ \E line \in Lines, e \in DnsEnvs :
         /\ last_line' = line
         /\ nlines' = nlines + 1
         /\ IF line.ok
            THEN LET r == parse_address(line.val, e.os80, e.os, e.rs) IN
                 IF r.panicked
                 THEN pc' = "panicked" /\ UNCHANGED <<file_ips, opened>>
                 ELSE /\ pc' = pc
                      /\ file_ips' = file_ips \o r.ips
                      /\ opened' = IF r.ips = <<>> /\ is_file(line.val)
                                   THEN opened \cup {line.val} ELSE opened
            ELSE UNCHANGED <<pc, file_ips, opened>>
    /\ UNCHANGED <<addresses, exclude_addresses, fs, i, ips, unresolved_addresses, warnings,
                   excluded_cidrs, parsed, file_results, call_vars>>

\* One iteration of the loop over reader.lines().
ReadLine ==
    /\ pc = "lines"
    /\ nlines < MaxLines
    /\ \E line \in Lines, e \in DnsEnvs :
         /\ last_line' = line
         /\ nlines' = nlines + 1
         /\ IF line.ok
            THEN LET r == parse_address(line.val, e.os80, e.os, e.rs) IN
                 IF r.panicked
                 THEN pc' = "panicked" /\ UNCHANGED file_ips
                 ELSE pc' = pc /\ file_ips' = file_ips \o r.ips
            ELSE UNCHANGED <<pc, file_ips>>
    /\ UNCHANGED <<addresses, exclude_addresses, fs, i, ips, unresolved_addresses, warnings,
                   excluded_cidrs, parsed, file_results, opened, call_vars>>

\* (mutant) a file's addresses are put in front of what was collected.
EndOfFile_in_front ==
    /\ pc = "lines"
    /\ ips' = file_ips \o ips
    /\ file_results' = Append(file_results, file_ips)
    /\ file_ips' = <<>>
    /\ nlines' = 0
    /\ last_line' = NoLine
    /\ NextFile
    /\ UNCHANGED <<addresses, exclude_addresses, fs, unresolved_addresses, warnings,
                   excluded_cidrs, parsed, opened, call_vars>>

\* The file ends: read_ips_from_file returns Ok(ips) and the caller extends.
EndOfFile ==
    /\ pc = "lines"
    /\ ips' = ips \o file_ips
    /\ file_results' = Append(file_results, file_ips)
    /\ file_ips' = <<>>
    /\ nlines' = 0
    /\ last_line' = NoLine
    /\ NextFile
    /\ UNCHANGED <<addresses, exclude_addresses, fs, unresolved_addresses, warnings,
                   excluded_cidrs, parsed, opened, call_vars>>

\* The answers of the lookups, one pair per exclusion spec.
EnvsFor(list) ==
    {f \in [1 .. Len(list) -> {Env(e.os, e.rs) : e \in {d \in DnsEnvs : ~d.os80.ok}}] :
        \A k \in 1 .. Len(list) : f[k] \in LookupEnvs(list[k])}

\* let excluded_cidrs = parse_excluded_networks(..)
BuildExclusions ==
    /\ pc = "exclude"
    /\ \E envs \in EnvsFor(exclude_addresses.list) :
         excluded_cidrs' = parse_excluded_networks(exclude_addresses, envs)
    /\ pc' = "retain"
    /\ UNCHANGED <<addresses, exclude_addresses, fs, i, ips, unresolved_addresses, warnings,
                   file_ips, nlines, parsed, file_results, opened, last_line, call_vars>>

\* ips.retain(..); ips
Retain ==
    /\ pc = "retain"
    /\ ips' = retain(ips, excluded_cidrs)
    /\ pc' = "done"
    /\ UNCHANGED <<addresses, exclude_addresses, fs, i, unresolved_addresses, warnings,
                   file_ips, nlines, excluded_cidrs, parsed, file_results, opened,
                   last_line, call_vars>>

Next ==
    \/ ClassifyToken
    \/ WarnNotFile
    \/ WarnUnreadable
    \/ OpenFile
    \/ ReadLine
    \/ EndOfFile
    \/ BuildExclusions
    \/ Retain

Spec == Init /\ [][Next]_vars

\* ============================================== single calls of a function
\* The pipeline at rest, while a single function is called.
MainIdle ==
    /\ addresses = <<>>
    /\ exclude_addresses = None
    /\ fs = [n \in Names |-> "absent"]
    /\ pc = "idle"
    /\ i = 1
    /\ ips = <<>>
    /\ unresolved_addresses = <<>>
    /\ warnings = <<>>
    /\ file_ips = <<>>
    /\ nlines = 0
    /\ excluded_cidrs = <<>>
    /\ parsed = <<>>
    /\ file_results = <<>>
    /\ opened = {}
    /\ last_line = NoLine

\* ---- parse_address on every string and every answer of the three lookups
InitParse ==
    /\ MainIdle
    /\ h_fn = "parse_address"
    /\ h_in \in [address : AllTokens, os80 : Lookups, os : Lookups, rs : Lookups]
    /\ h_out = NoCall

CallParseAddress ==
    /\ h_fn = "parse_address"
    /\ h_out = NoCall
    /\ h_out' = parse_address(h_in.address, h_in.os80, h_in.os, h_in.rs)
    /\ UNCHANGED <<main_vars, h_fn, h_in>>

NextParse == CallParseAddress

SpecParse == InitParse /\ [][NextParse]_vars

\* ---- parse_excluded_networks on lists of exclusion specs
\* The specs tried: literals of both families, a block, a block given with
\* host bits set, a prefix length beyond the width, and names.
ExclusionSpecs ==
    Exclusions \cup {IpTok(Ip("v6", 1)), CidrTok(Ip("v4", 0), V4Bits + 1), NameTok("b")}

\* A spec together with the answers its lookups get.
ExclusionCases ==
    UNION {{[spec |-> t, env |-> e] : e \in LookupEnvs(t)} : t \in ExclusionSpecs}

InitExcl ==
    /\ MainIdle
    /\ h_fn = "parse_excluded_networks"
    /\ h_in \in {[exclude_addresses |-> None, envs |-> <<>>]}
           \cup {[exclude_addresses |-> Some([k \in 1 .. Len(cs) |-> cs[k].spec]),
                  envs |-> [k \in 1 .. Len(cs) |-> cs[k].env]] :
                    cs \in SeqsUpTo(ExclusionCases, MaxSpecs)}
    /\ h_out = NoCall

CallParseExcluded ==
    /\ h_fn = "parse_excluded_networks"
    /\ h_out = NoCall
    /\ h_out' = [entries |-> parse_excluded_networks(h_in.exclude_addresses, h_in.envs)]
    /\ UNCHANGED <<main_vars, h_fn, h_in>>

NextExcl == CallParseExcluded

SpecExcl == InitExcl /\ [][NextExcl]_vars

\* =================================================================== claims
\* A text address/prefix-length with the prefix length within the width.
IsCidrText(t) == t.form = "cidr" /\ t.len <= Bits(t.addr.fam)

\* A text that is neither a literal IP nor a CIDR: handled as a hostname.
IsHostText(t) == t.form = "name" \/ (t.form = "cidr" /\ t.len > Bits(t.addr.fam))

ParseAddressReturned == h_fn = "parse_address" /\ h_out # NoCall

\* C4: for a token address/prefix-length, parse_address returns exactly
\* 2^(bits - prefix) addresses of the token's family, consecutive and strictly
\* ascending, from the address truncated to the prefix length (a multiple of
\* the block size, at most the address, less than one block below it) up to
\* the last address of the block, whether or not the host bits are zero.
C4_CidrExpansion ==
    (ParseAddressReturned /\ IsCidrText(h_in.address)) =>
        LET t == h_in.address
            size == Pow2(Bits(t.addr.fam) - t.len)
            out == h_out.ips
        IN  /\ ~h_out.panicked
            /\ Len(out) = size
            /\ \A k \in 1 .. Len(out) : out[k].fam = t.addr.fam
            /\ \A k \in 1 .. (Len(out) - 1) : out[k].val < out[k + 1].val
            /\ \A k \in 1 .. Len(out) : out[k].val = out[1].val + (k - 1)
            /\ out[1].val % size = 0
            /\ out[1].val <= t.addr.val
            /\ t.addr.val < out[1].val + size

\* C4 witness: a v6 block of more than two addresses, given with host bits set,
\* has been expanded.
C4_Witness ==
    /\ ParseAddressReturned
    /\ IsCidrText(h_in.address)
    /\ h_in.address.addr.fam = "v6"
    /\ h_in.address.addr.val % Pow2(V6Bits - h_in.address.len) # 0
    /\ Len(h_out.ips) > 2

\* C6: whatever the lookups answer, parse_address returns (it does not panic).
C6_NeverPanics == ParseAddressReturned => ~h_out.panicked

\* C7: for a hostname, the explicit resolver is queried only if the OS lookup
\* of "host:80" failed; when that lookup answers one or more addresses the
\* result is exactly the first of them and the resolver is not queried; when
\* it answers none the resolver is not queried either.
C7_ResolverOnlyAfterError ==
    (ParseAddressReturned /\ IsHostText(h_in.address)) =>
        LET queried == \E k \in 1 .. Len(h_out.lookups) : h_out.lookups[k] = "resolver" IN
        /\ queried => ~h_in.os80.ok
        /\ (h_in.os80.ok /\ h_in.os80.val # <<>>) =>
              /\ ~h_out.panicked
              /\ h_out.ips = <<h_in.os80.val[1]>>
              /\ ~queried
        /\ (h_in.os80.ok /\ h_in.os80.val = <<>>) => ~queried

\* C7 witness: the OS lookup answered two different addresses while the
\* resolver would have answered too, and the first one was returned.
C7_Witness ==
    /\ ParseAddressReturned
    /\ h_in.address.form = "name"
    /\ h_in.os80.ok
    /\ Len(h_in.os80.val) = 2
    /\ h_in.os80.val[1] # h_in.os80.val[2]
    /\ h_in.rs.ok
    /\ h_in.rs.val # <<>>
    /\ h_out.ips = <<h_in.os80.val[1]>>

\* What the three attempts of C10 give for one spec: the network of a CIDR
\* with zero host bits, else the host of a literal IP, else one host per
\* address the hostname resolves to (the OS answer, or when it fails the
\* resolver's), else nothing.
C10_Resolved(env) ==
    IF env.os.ok THEN env.os.val ELSE IF env.rs.ok THEN env.rs.val ELSE <<>>

C10_Entries(t, env) ==
    IF IsCidrText(t) /\ t.addr.val % Pow2(Bits(t.addr.fam) - t.len) = 0
    THEN <<[addr |-> t.addr, len |-> t.len]>>
    ELSE IF t.form = "ip"
    THEN <<[addr |-> t.addr, len |-> Bits(t.addr.fam)]>>
    ELSE [k \in 1 .. Len(C10_Resolved(env)) |->
            [addr |-> C10_Resolved(env)[k], len |-> Bits(C10_Resolved(env)[k].fam)]]

RECURSIVE C10_AllEntries(_, _)
C10_AllEntries(list, envs) ==
    IF list = <<>> THEN <<>>
    ELSE C10_Entries(Head(list), Head(envs)) \o C10_AllEntries(Tail(list), Tail(envs))

ParseExcludedReturned == h_fn = "parse_excluded_networks" /\ h_out # NoCall

\* C10: the entries of parse_excluded_networks are, spec by spec and in order,
\* what the first successful form of the spec gives; a spec that fails all
\* three gives nothing and the specs after it are still processed; no warning
\* is emitted.
C10_ExclusionEntries ==
    ParseExcludedReturned =>
        /\ h_out.entries = C10_AllEntries(h_in.exclude_addresses.list, h_in.envs)
        /\ warnings = <<>>

\* C10 witness: a first spec that fails all three forms is followed by a
\* hostname that resolves to two addresses, which gave two entries.
C10_Witness ==
    /\ ParseExcludedReturned
    /\ Len(h_in.exclude_addresses.list) = 2
    /\ C10_Entries(h_in.exclude_addresses.list[1], h_in.envs[1]) = <<>>
    /\ h_in.exclude_addresses.list[2].form = "name"
    /\ Len(h_out.entries) = 2

\* ------------------------------------------------- claims on parse_addresses
Range(q) == {q[k] : k \in 1 .. Len(q)}

RECURSIVE Flatten(_)
Flatten(qs) == IF qs = <<>> THEN <<>> ELSE Head(qs) \o Flatten(Tail(qs))

\* The number of places of q that hold x.
Count(q, x) == Cardinality({k \in 1 .. Len(q) : q[k] = x})

\* The first place of q that holds x.
FirstPos(q, x) == CHOOSE k \in 1 .. Len(q) : q[k] = x /\ \A j \in 1 .. (k - 1) : q[j] # x

\* The addresses an exclusion entry stands for: the block of its length that
\* starts at its address.
InEntry(entry, a) ==
    /\ a.fam = entry.addr.fam
    /\ entry.addr.val <= a.val
    /\ a.val < entry.addr.val + Pow2(Bits(entry.addr.fam) - entry.len)

Returned == pc = "done"

\* C1: the returned sequence holds no address twice.
C1_NoDuplicates ==
    Returned => \A p, q \in 1 .. Len(ips) : p # q => ips[p] # ips[q]

\* C1 witness: a block and a block inside it were the targets and the union
\* was returned, each address once.
C1_Witness ==
    /\ Returned
    /\ addresses = <<CidrTok(Ip("v4", 0), V4Bits - 2), CidrTok(Ip("v4", 1), V4Bits - 1)>>
    /\ excluded_cidrs = <<>>
    /\ Len(Flatten(parsed)) = 6
    /\ Len(ips) = 4

\* C2: no returned address lies in an exclusion entry.
C2_NoExcluded ==
    Returned =>
        \A p \in 1 .. Len(ips) : \A k \in 1 .. Len(excluded_cidrs) :
            ~InEntry(excluded_cidrs[k], ips[p])

\* C2 witness: a block excluded an address that a file contributed and a host
\* entry was built too, and something was still returned.
C2_Witness ==
    /\ Returned
    /\ ips # <<>>
    /\ \E k \in 1 .. Len(excluded_cidrs) :
         /\ excluded_cidrs[k].len < Bits(excluded_cidrs[k].addr.fam)
         /\ \E a \in Range(Flatten(file_results)) :
              a \notin Range(Flatten(parsed)) /\ InEntry(excluded_cidrs[k], a)

\* Everything classified, in the order the claim gives: the direct tokens in
\* token order, then the files in file-token order.
C3_Produced == Flatten(parsed) \o Flatten(file_results)

\* In the result, addresses stand in the order of their first production.
C3_Order ==
    Returned =>
        /\ \A p \in 1 .. Len(ips) : ips[p] \in Range(C3_Produced)
        /\ \A p, q \in 1 .. Len(ips) :
             p < q => FirstPos(C3_Produced, ips[p]) < FirstPos(C3_Produced, ips[q])
        /\ \A p, q \in 1 .. Len(ips) :
             (ips[p] \in Range(Flatten(parsed)) /\ ips[q] \notin Range(Flatten(parsed)))
                => p < q

\* Each token's addresses are appended when it is classified, each line's when
\* it is read, and a file's when it ends.
C3_Steps ==
    /\ (pc = "tokens" /\ pc' # "panicked") =>
          /\ Len(parsed') = Len(parsed) + 1
          /\ ips' = ips \o parsed'[Len(parsed')]
    /\ (pc = "lines" /\ pc' = "lines") =>
          /\ Len(file_ips') >= Len(file_ips)
          /\ SubSeq(file_ips', 1, Len(file_ips)) = file_ips
    /\ (pc = "lines" /\ pc' \in {"files", "exclude"}) =>
          /\ ips' = ips \o file_ips
          /\ file_results' = Append(file_results, file_ips)
    /\ (pc = "files" /\ pc' # "lines") => ips' = ips

\* C3: in the result every address of a direct token precedes every address
\* only a file produced, wherever the file token stands; the direct addresses
\* follow token order, the file addresses file-token order and then line order.
C3_DirectBeforeFiles == [](C3_Order) /\ [][C3_Steps]_vars

\* C3 witness: the first token was a file, the second a direct token, and the
\* result begins with the direct token's address and also holds an address
\* that only the file produced.
C3_Witness ==
    /\ Returned
    /\ Len(addresses) = 2
    /\ parsed[1] = <<>>
    /\ parsed[2] # <<>>
    /\ file_results[1] # <<>>
    /\ ips # <<>>
    /\ ips[1] = parsed[2][1]
    /\ \E q \in 1 .. Len(ips) : ips[q] \notin Range(Flatten(parsed))

\* The token classified to nothing and is no existing regular file.
C5_Invalid(k) == parsed[k] = <<>> /\ ~is_file(addresses[k])

\* Every token of the input is a name that is no regular file and that, once
\* classified, resolved to nothing.
C5_OnlyInvalid ==
    \A k \in 1 .. Len(addresses) :
        /\ addresses[k].form = "name"
        /\ ~is_file(addresses[k])
        /\ k <= Len(parsed) => parsed[k] = <<>>

\* C5: parse_addresses warns exactly once for each token that is neither a
\* literal IP, a CIDR, a resolvable hostname nor an existing regular file and
\* for no other token; after a warning the run goes on and returns the
\* addresses of the other tokens; an input of only invalid tokens returns an
\* empty result and does not fail.
C5_WarnsExactlyInvalid ==
    /\ Returned =>
          \A t \in Range(addresses) :
              Count(warnings, t)
                  = Cardinality({k \in 1 .. Len(addresses) : addresses[k] = t /\ C5_Invalid(k)})
    /\ Returned =>
          \A a \in Range(Flatten(parsed) \o Flatten(file_results)) :
              (\E k \in 1 .. Len(excluded_cidrs) : InEntry(excluded_cidrs[k], a))
                  \/ a \in Range(ips)
    /\ warnings # <<>> => pc # "panicked"
    /\ C5_OnlyInvalid => pc # "panicked"
    /\ (C5_OnlyInvalid /\ Returned) => ips = <<>>

\* The file the second loop is at.
C8_Token == unresolved_addresses[i]

C8_Unopenable == pc = "files" /\ is_file(C8_Token) /\ fs[C8_Token.name] = "locked"

\* A file that cannot be opened: one warning for the token, nothing added,
\* and the loop goes on to the next token.
C8_OpenFails ==
    C8_Unopenable =>
        /\ warnings' = Append(warnings, C8_Token)
        /\ ips' = ips
        /\ file_results' = Append(file_results, <<>>)
        /\ pc' = IF i < Len(unresolved_addresses) THEN "files" ELSE "exclude"

\* The file has ended after a line of it failed to read.
C8_EndsAfterReadError ==
    pc = "lines" /\ last_line = Err /\ pc' \in {"files", "exclude"}

\* C8 as stated: a file that cannot be opened is warned about and skipped,
\* and a read error on a line does the same to the whole file.
C8_ReadErrorDiscardsFile ==
    [][/\ C8_OpenFails
       /\ C8_EndsAfterReadError =>
             (warnings' = Append(warnings, C8_Token) /\ ips' = ips)]_vars

\* C8 amended: a file that cannot be opened is warned about and skipped and
\* the loop goes on; a read error on a line skips that line only: nothing is
\* added for it, the file goes on being read, what its other lines gave is
\* added when it ends, and no warning is emitted for the file.
C8_ReadErrorSkipsLine ==
    [][/\ C8_OpenFails
       /\ (pc = "lines" /\ nlines' = nlines + 1 /\ last_line' = Err) =>
             (pc' = "lines" /\ file_ips' = file_ips /\ warnings' = warnings /\ ips' = ips)
       /\ (pc = "lines" /\ pc' \in {"files", "exclude"}) =>
             (ips' = ips \o file_ips /\ warnings' = warnings)]_vars

\* C8 witness: a file that does not open has been warned about, and in a file
\* read after it a line gave an address and the next line failed to read.
C8_Witness ==
    /\ pc = "lines"
    /\ last_line = Err
    /\ file_ips # <<>>
    /\ \E k \in 1 .. Len(warnings) :
         warnings[k].form = "name" /\ fs[warnings[k].name] = "locked"

\* C9: only input tokens are opened as files, and while a file is read no
\* warning is emitted and no file is opened, whatever its lines are.
C9_LinesAreNotFiles ==
    /\ [](opened \subseteq Range(addresses))
    /\ [][pc = "lines" => (warnings' = warnings /\ opened' = opened)]_vars

\* C9 witness: the only line read so far names an existing file that is no
\* input token, and it classified to nothing.
C9_Witness ==
    /\ pc = "lines"
    /\ nlines = 1
    /\ last_line.ok
    /\ last_line.val.form = "name"
    /\ fs[last_line.val.name] = "file"
    /\ last_line.val \notin Range(addresses)
    /\ file_ips = <<>>

\* ============================================================= get_resolver
\* A literal IP with white space around it: it parses only once trimmed.
PaddedTok(a) == [form |-> "padded", addr |-> a, len |-> 0, name |-> ""]

\* str::trim
trim(s) == IF s.form = "padded" THEN IpTok(s.addr) ELSE s

\* The lines of a resolver file and the comma-separated parts of a resolver
\* source: literals, a literal with white space around it, and other text.
ResolverTexts ==
    {IpTok(Ip("v4", 1)), IpTok(Ip("v6", 1)), PaddedTok(Ip("v4", 2)), NameTok("a")}

\* The items of q that f maps to Ok, mapped, in order: filter_map(f).collect().
RECURSIVE filter_map_ip(_, _)
filter_map_ip(q, trimmed) ==
    IF q = <<>> THEN <<>>
    ELSE LET r == IpAddr_from_str(IF trimmed THEN trim(Head(q)) ELSE Head(q)) IN
         (IF r.ok THEN <<r.val>> ELSE <<>>) \o filter_map_ip(Tail(q), trimmed)

\* read_resolver_from_file: `read` is what fs::read_to_string(path) answers,
\* Err or the lines of the file.
read_resolver_from_file(read) ==
    IF read.ok THEN Ok(filter_map_ip(read.val, TRUE)) ELSE Err

\* NameServerConfig::new(SocketAddr::new(ip, 53), Protocol::Udp)
NameServerConfig(ip) == [ip |-> ip, port |-> 53, protocol |-> "Udp"]

\* A resolver built from a configuration of name servers.
CustomResolver(source_ips, from) ==
    [panicked |-> FALSE, kind |-> "custom", from |-> from,
     nameservers |-> [k \in 1 .. Len(source_ips) |-> NameServerConfig(source_ips[k])],
     tried |-> <<>>]

\* Resolver::new(..).unwrap() on an error.
ResolverPanic(tried) ==
    [panicked |-> TRUE, kind |-> "none", from |-> "none", nameservers |-> <<>>,
     tried |-> tried]

\* (mutant) a source in which nothing parses falls back to the system resolver.
get_resolver_fallback(resolver, read, sys_ok, new_ok) ==
    IF resolver.some
    THEN IF ~new_ok THEN ResolverPanic(<<>>)
         ELSE IF read_resolver_from_file(read).ok
         THEN IF read_resolver_from_file(read).val = <<>>
              THEN [panicked |-> FALSE, kind |-> "system", from |-> "none",
                    nameservers |-> <<>>, tried |-> <<"system">>]
              ELSE CustomResolver(read_resolver_from_file(read).val, "file")
         ELSE CustomResolver(filter_map_ip(resolver.list, FALSE), "list")
    ELSE IF sys_ok
    THEN [panicked |-> FALSE, kind |-> "system", from |-> "none", nameservers |-> <<>>,
          tried |-> <<"system">>]
    ELSE IF new_ok
    THEN [panicked |-> FALSE, kind |-> "cloudflare_tls", from |-> "none",
          nameservers |-> <<>>, tried |-> <<"system", "cloudflare_tls">>]
    ELSE ResolverPanic(<<"system", "cloudflare_tls">>)

\* get_resolver: `resolver` is the source, None or Some of its comma-separated
\* parts; `read` what reading it as a file answers; `sys_ok` whether
\* Resolver::from_system_conf() succeeds; `new_ok` whether Resolver::new does.
get_resolver(resolver, read, sys_ok, new_ok) ==
    IF resolver.some
    THEN IF ~new_ok THEN ResolverPanic(<<>>)
         ELSE IF read_resolver_from_file(read).ok
         THEN CustomResolver(read_resolver_from_file(read).val, "file")
         ELSE CustomResolver(filter_map_ip(resolver.list, FALSE), "list")
    ELSE IF sys_ok
    THEN [panicked |-> FALSE, kind |-> "system", from |-> "none", nameservers |-> <<>>,
          tried |-> <<"system">>]
    ELSE IF new_ok
    THEN [panicked |-> FALSE, kind |-> "cloudflare_tls", from |-> "none",
          nameservers |-> <<>>, tried |-> <<"system", "cloudflare_tls">>]
    ELSE ResolverPanic(<<"system", "cloudflare_tls">>)

\* The sources: absent, or one to MaxParts comma-separated parts.
ResolverSources ==
    {None} \cup {Some(q) : q \in SeqsUpTo(ResolverTexts, MaxParts) \ {<<>>}}

\* What reading the source as a file answers.
ResolverReads == {Err} \cup {Ok(q) : q \in SeqsUpTo(ResolverTexts, MaxParts)}

InitResolver ==
    /\ MainIdle
    /\ h_fn = "get_resolver"
    /\ h_in \in [resolver : ResolverSources, read : ResolverReads,
                 sys_ok : BOOLEAN, new_ok : BOOLEAN]
    /\ h_out = NoCall

CallGetResolver ==
    /\ h_fn = "get_resolver"
    /\ h_out = NoCall
    /\ h_out' = get_resolver(h_in.resolver, h_in.read, h_in.sys_ok, h_in.new_ok)
    /\ UNCHANGED <<main_vars, h_fn, h_in>>

NextResolver == CallGetResolver

SpecResolver == InitResolver /\ [][NextResolver]_vars

\* The addresses of the literal IPs among the items of q, in order; with
\* `trimmed`, white space around an item does not count.
C11_Literals(q, trimmed) ==
    LET lit == SelectSeq(q, LAMBDA t : t.form = "ip" \/ (trimmed /\ t.form = "padded"))
    IN  [k \in 1 .. Len(lit) |-> lit[k].addr]

GetResolverReturned == h_fn = "get_resolver" /\ h_out # NoCall /\ ~h_out.panicked

C11_Ips == [k \in 1 .. Len(h_out.nameservers) |-> h_out.nameservers[k].ip]

\* C11: with a source, the name servers are exactly the literals of the lines
\* of the file when the source reads as a file, and otherwise exactly the
\* literals of its comma-separated parts; the parts are used only when the
\* read fails; a source in which nothing parses gives a resolver of zero name
\* servers and neither the system nor the public resolver is tried.  Without
\* a source the system configuration is tried first and the public resolver
\* only when that fails.
C11_ResolverSource ==
    /\ (h_fn = "get_resolver" /\ h_out # NoCall /\ h_in.resolver.some) =>
          h_out.tried = <<>>
    /\ (GetResolverReturned /\ h_in.resolver.some) =>
          /\ h_out.kind = "custom"
          /\ h_in.read.ok => C11_Ips = C11_Literals(h_in.read.val, TRUE)
          /\ ~h_in.read.ok => C11_Ips = C11_Literals(h_in.resolver.list, FALSE)
          /\ h_out.from = "list" => ~h_in.read.ok
          /\ \A k \in 1 .. Len(h_out.nameservers) :
                h_out.nameservers[k].port = 53 /\ h_out.nameservers[k].protocol = "Udp"
    /\ (GetResolverReturned /\ ~h_in.resolver.some) =>
          /\ h_out.tried[1] = "system"
          /\ h_out.kind = IF h_in.sys_ok THEN "system" ELSE "cloudflare_tls"
          /\ h_in.sys_ok => h_out.tried = <<"system">>

\* C11 witness: the source read as a file in which nothing parses while its
\* own text holds a literal, and the resolver has no name server.
C11_Witness ==
    /\ GetResolverReturned
    /\ h_in.resolver.some
    /\ h_in.read.ok
    /\ h_in.read.val # <<>>
    /\ C11_Literals(h_in.resolver.list, FALSE) # <<>>
    /\ h_out.kind = "custom"
    /\ h_out.nameservers = <<>>

\* ============================================================ scripts/mod.rs
\* A call format is a text with placeholders: a sequence of pieces, each a
\* literal text or a placeholder {{name}}.
Lit(text) == [kind |-> "lit", text |-> text]

Ph(name) == [kind |-> "ph", text |-> name]

\* Option<T>
Absent == [some |-> FALSE, val |-> <<>>]

\* Option<String>::None
NoString == [some |-> FALSE, val |-> ""]

Present(v) == [some |-> TRUE, val |-> v]

\* struct ScriptFile (developer is read by nothing and left out)
ScriptFile(path, tags, port, ports_separator, call_format) ==
    [path |-> path, tags |-> tags, port |-> port, ports_separator |-> ports_separator,
     call_format |-> call_format]

\* toml::from_str::<ScriptFile>(DEFAULT)
DEFAULT ==
    ScriptFile(NoString, Present(<<"core_approved", "RustScan", "default">>), NoString,
               Present(","),
               Present(<<Lit("nmap -vvv -p "), Ph("port"), Lit(" -"), Ph("ipversion"),
                         Lit(" "), Ph("ip")>>))

\* The tags of script files and of the script configuration.
Tags == {"core_approved", "example", "extra"}

TagLists == {Absent} \cup {Present(q) : q \in SeqsUpTo(Tags, MaxTags)}

\* Vec::contains
vec_contains(q, x) == \E k \in 1 .. Len(q) : q[k] = x

\* script_hashset.iter().all(|tag| config_hashset.contains(tag))
tags_match(script_hashset, config_hashset) ==
    \A k \in 1 .. Len(script_hashset) : vec_contains(config_hashset, script_hashset[k])

\* The loop over parsed_scripts: the scripts with tags that match, in order.
RECURSIVE select_scripts(_, _)
select_scripts(parsed_scripts, config_hashset) ==
    IF parsed_scripts = <<>> THEN <<>>
    ELSE (IF Head(parsed_scripts).tags.some
             /\ tags_match(Head(parsed_scripts).tags.val, config_hashset)
          THEN <<Head(parsed_scripts)>> ELSE <<>>)
         \o select_scripts(Tail(parsed_scripts), config_hashset)

\* init_scripts: `config` is what ScriptConfig::read_config() answers (Err, or
\* the tags of the configuration), `found` whether the scripts directory is
\* found and listed, `parsed_scripts` what parse_scripts makes of its files.
init_scripts(scripts, config, found, parsed_scripts) ==
    IF scripts = "None" THEN Ok(<<>>)
    ELSE IF scripts = "Default" THEN Ok(<<DEFAULT>>)
    ELSE IF ~config.ok THEN Err
    ELSE IF ~found THEN Err
    ELSE IF config.val.some THEN Ok(select_scripts(parsed_scripts, config.val.val))
    ELSE Ok(<<>>)

\* The script files of the directory: each has a path of its own and any tags.
ParsedScripts ==
    UNION {{[k \in 1 .. n |->
                ScriptFile(Present("script" \o ToString(k)), tl[k], NoString, NoString, Absent)] :
              tl \in [1 .. n -> TagLists]} : n \in 0 .. MaxScripts}

InitScripts ==
    /\ MainIdle
    /\ h_fn = "init_scripts"
    /\ h_in \in [scripts : {"None", "Default", "Custom"},
                 config : {Err} \cup {Ok(t) : t \in TagLists},
                 found : BOOLEAN,
                 parsed_scripts : ParsedScripts]
    /\ h_out = NoCall

CallInitScripts ==
    /\ h_fn = "init_scripts"
    /\ h_out = NoCall
    /\ h_out' = init_scripts(h_in.scripts, h_in.config, h_in.found, h_in.parsed_scripts)
    /\ UNCHANGED <<main_vars, h_fn, h_in>>

NextScripts == CallInitScripts

SpecScripts == InitScripts /\ [][NextScripts]_vars

\* C12: in Custom mode, with tags in the configuration, a script with tags is
\* selected if and only if every tag of the configuration is among its own
\* tags (it may have more).
C12_ConfigTagsInScript ==
    (/\ h_fn = "init_scripts"
     /\ h_out # NoCall
     /\ h_in.scripts = "Custom"
     /\ h_out.ok
     /\ h_in.config.val.some) =>
        \A k \in 1 .. Len(h_in.parsed_scripts) :
            h_in.parsed_scripts[k].tags.some =>
                ((\E j \in 1 .. Len(h_out.val) : h_out.val[j] = h_in.parsed_scripts[k])
                   <=> \A t \in Range(h_in.config.val.val) :
                          t \in Range(h_in.parsed_scripts[k].tags.val))

\* ------------------------------------------------------------- Script::run
\* struct Script (tags are read by nothing in run and left out)
Script(path, ip, open_ports, trigger_port, ports_separator, call_format) ==
    [path |-> path, ip |-> ip, open_ports |-> open_ports, trigger_port |-> trigger_port,
     ports_separator |-> ports_separator, call_format |-> call_format]

\* u16::to_string
u16_to_string(port) == ToString(port)

\* IpAddr::to_string, on the scaled addresses
ip_to_string(ip) ==
    IF ip.fam = "v4" THEN "127.0.0." \o ToString(ip.val) ELSE "::" \o ToString(ip.val)

\* [String]::join
RECURSIVE join(_, _)
join(strs, separator) ==
    IF strs = <<>> THEN ""
    ELSE IF Len(strs) = 1 THEN strs[1]
    ELSE strs[1] \o separator \o join(Tail(strs), separator)

\* String::contains("{{name}}")
contains_placeholder(call_format, name) ==
    \E k \in 1 .. Len(call_format) : call_format[k] = Ph(name)

\* Template::fill_with_struct: literal pieces as they are, a placeholder by the
\* field of its name (nothing for a name the struct lacks).
RECURSIVE fill_with_struct(_, _)
fill_with_struct(template, parts) ==
    IF template = <<>> THEN ""
    ELSE (IF Head(template).kind = "lit" THEN Head(template).text
          ELSE IF Head(template).text \in DOMAIN parts THEN parts[Head(template).text]
          ELSE "")
         \o fill_with_struct(Tail(template), parts)

\* execute_script: `outcome` is what running `sh -c script` gives.
execute_script(script, outcome) ==
    IF outcome.status = "exit" /\ outcome.code = 0 THEN Ok(outcome.stdout) ELSE Err

\* What one call of run did: it panicked, or it returned `result`; `executed`
\* is the command handed to execute_script, `parts` the struct the template
\* was filled with.
RunPanic == [panicked |-> TRUE, result |-> Err, executed |-> NoString, parts |-> Absent]

RunReturn(result, executed, parts) ==
    [panicked |-> FALSE, result |-> result, executed |-> executed, parts |-> parts]

\* (mutant) the open ports are joined whether or not a trigger port is defined.
ports_str_joined(self) ==
    join([k \in 1 .. Len(self.open_ports) |-> u16_to_string(self.open_ports[k])],
         IF self.ports_separator.some THEN self.ports_separator.val ELSE ",")

\* run, lines 229-239: separator and ports_str
ports_str(self) ==
    IF self.trigger_port.some THEN self.trigger_port.val
    ELSE join([k \in 1 .. Len(self.open_ports) |-> u16_to_string(self.open_ports[k])],
              IF self.ports_separator.some THEN self.ports_separator.val ELSE ",")

ipversion(ip) == IF ip.fam = "v4" THEN "4" ELSE "6"

ExecPartsScript(self) ==
    [script |-> self.path.val, ip |-> ip_to_string(self.ip), port |-> ports_str(self),
     ipversion |-> ipversion(self.ip)]

ExecParts(self) ==
    [ip |-> ip_to_string(self.ip), port |-> ports_str(self), ipversion |-> ipversion(self.ip)]

\* (mutant) a script without call_format runs with an empty format.
run_empty_format(self, outcome) ==
    LET final_call_format == IF self.call_format.some THEN self.call_format.val ELSE <<>>
    IN  IF contains_placeholder(final_call_format, "script")
        THEN IF ~self.path.some THEN RunPanic
             ELSE LET to_run == fill_with_struct(final_call_format, ExecPartsScript(self))
                  IN  RunReturn(execute_script(to_run, outcome), Present(to_run),
                                Present(ExecPartsScript(self)))
        ELSE LET to_run == fill_with_struct(final_call_format, ExecParts(self))
             IN  RunReturn(execute_script(to_run, outcome), Present(to_run),
                           Present(ExecParts(self)))

\* Script::run
run(self, outcome) ==
    IF ~self.call_format.some THEN RunReturn(Err, NoString, Absent)
    ELSE LET final_call_format == self.call_format.val
         IN  IF contains_placeholder(final_call_format, "script")
             THEN IF ~self.path.some THEN RunPanic
                  ELSE LET to_run == fill_with_struct(final_call_format, ExecPartsScript(self))
                       IN  RunReturn(execute_script(to_run, outcome), Present(to_run),
                                     Present(ExecPartsScript(self)))
             ELSE LET to_run == fill_with_struct(final_call_format, ExecParts(self))
                  IN  RunReturn(execute_script(to_run, outcome), Present(to_run),
                                Present(ExecParts(self)))

\* The inputs of run.
CallFormats ==
    {<<Ph("script"), Lit(" "), Ph("ip"), Lit(" "), Ph("port")>>,
     <<Lit("nmap -vvv -p "), Ph("port"), Lit(" "), Ph("ip")>>,
     DEFAULT.call_format.val,
     <<Lit("qwertyuiop")>>,
     <<Lit("ping "), Ph("ip")>>,
     <<Ph("script")>>}

Ports == {80, 8080}

ExecOutcomes ==
    {[status |-> "exit", code |-> 0, stdout |-> "out"],
     [status |-> "exit", code |-> 1, stdout |-> ""],
     [status |-> "spawn_error", code |-> 0, stdout |-> ""]}

RunScripts ==
    {Script(path, ip, open_ports, trigger_port, ports_separator, call_format) :
        path \in {NoString, Present("test_script.sh")},
        ip \in {Ip("v4", 1), Ip("v6", 1)},
        open_ports \in SeqsUpTo(Ports, MaxPorts),
        trigger_port \in {NoString, Present("443")},
        ports_separator \in {NoString, Present(","), Present(" ")},
        call_format \in {Absent} \cup {Present(f) : f \in CallFormats}}

InitRun ==
    /\ MainIdle
    /\ h_fn = "run"
    /\ h_in \in [self : RunScripts, outcome : ExecOutcomes]
    /\ h_out = NoCall

CallRun ==
    /\ h_fn = "run"
    /\ h_out = NoCall
    /\ h_out' = run(h_in.self, h_in.outcome)
    /\ UNCHANGED <<main_vars, h_fn, h_in>>

NextRun == CallRun

SpecRun == InitRun /\ [][NextRun]_vars

RunCalled == h_fn = "run" /\ h_out # NoCall

\* C13: run hands a command to execute_script only when call_format is one of
\* the two documented variants (both contain {{ip}} and {{port}}); for any
\* other call_format run returns an error and executes nothing.
C13_DocumentedVariant(f) == contains_placeholder(f, "ip") /\ contains_placeholder(f, "port")

C13_OtherFormatsDiscarded ==
    (RunCalled /\ h_in.self.call_format.some
       /\ ~C13_DocumentedVariant(h_in.self.call_format.val)) =>
        /\ ~h_out.panicked
        /\ ~h_out.result.ok
        /\ ~h_out.executed.some

\* C14: run on a script without call_format returns an error and never
\* reaches execute_script, whatever the other fields are.
C14_MissingFormatIsError ==
    (RunCalled /\ ~h_in.self.call_format.some) =>
        /\ ~h_out.panicked
        /\ ~h_out.result.ok
        /\ ~h_out.executed.some

C14_Witness ==
    /\ RunCalled
    /\ ~h_in.self.call_format.some
    /\ h_in.self.trigger_port.some
    /\ h_in.self.path.some
    /\ Len(h_in.self.open_ports) = MaxPorts
    /\ h_in.outcome.code = 0 /\ h_in.outcome.status = "exit"
    /\ ~h_out.result.ok

\* C16: the value substituted for {{port}} is the trigger port whenever one is
\* defined, whatever open ports were found; otherwise it is the open ports in
\* their order joined by ports_separator, or by "," when none is defined.
RECURSIVE C16_Joined(_, _)
C16_Joined(ports, sep) ==
    IF ports = <<>> THEN ""
    ELSE IF Len(ports) = 1 THEN ToString(ports[1])
    ELSE C16_Joined(SubSeq(ports, 1, Len(ports) - 1), sep) \o sep \o ToString(ports[Len(ports)])

C16_Expected(self) ==
    IF self.trigger_port.some THEN self.trigger_port.val
    ELSE C16_Joined(self.open_ports,
                    IF self.ports_separator.some THEN self.ports_separator.val ELSE ",")

C16_PortValue ==
    (RunCalled /\ h_out.executed.some) =>
        /\ h_out.parts.val.port = C16_Expected(h_in.self)
        /\ h_in.self.call_format.val = <<Lit("nmap -vvv -p "), Ph("port"), Lit(" "), Ph("ip")>> =>
              h_out.executed.val
                = "nmap -vvv -p " \o C16_Expected(h_in.self) \o " " \o ip_to_string(h_in.self.ip)

C16_Witness ==
    /\ RunCalled
    /\ h_in.self.trigger_port = Present("443")
    /\ h_in.self.open_ports = <<80, 8080>>
    /\ h_in.self.ip = Ip("v4", 1)
    /\ h_out.executed = Present("nmap -vvv -p 443 127.0.0.1")

\* ------------------------------------------------------------------ C15
\* The places of the concatenation that one forward pass keeps: the address is
\* in no exclusion entry and stands at no earlier place.
C15_Kept ==
    {k \in 1 .. Len(C3_Produced) :
        /\ \A j \in 1 .. (k - 1) : C3_Produced[j] # C3_Produced[k]
        /\ \A e \in 1 .. Len(excluded_cidrs) : ~InEntry(excluded_cidrs[e], C3_Produced[k])}

\* The p-th kept place, counted from the front.
C15_Place(p) == CHOOSE k \in C15_Kept : Cardinality({j \in C15_Kept : j <= k}) = p

\* C15: the result is the concatenation of the direct and the file addresses
\* with every address removed that is in an exclusion entry or occurred
\* earlier: a subsequence of it, each kept address at the place of its first
\* occurrence, no address that is not excluded missing.
C15_ForwardPass ==
    /\ pc = "retain" => ips = C3_Produced
    /\ Returned =>
          /\ Len(ips) = Cardinality(C15_Kept)
          /\ \A p \in 1 .. Len(ips) : ips[p] = C3_Produced[C15_Place(p)]

\* C15 witness: the concatenation, part of it read from a file, held an
\* address twice and an excluded address, and two addresses or more were kept.
C15_Witness ==
    /\ Returned
    /\ \E j, k \in 1 .. Len(C3_Produced) : j < k /\ C3_Produced[j] = C3_Produced[k]
    /\ \E k \in 1 .. Len(C3_Produced) : \E e \in 1 .. Len(excluded_cidrs) :
          InEntry(excluded_cidrs[e], C3_Produced[k])
    /\ Len(ips) >= 2
    /\ Flatten(file_results) # <<>>

\* ------------------------------------------------------------------ C17
\* A text address/prefix-length whose address has host bits set.
C17_HostBitsSet(t) == IsCidrText(t) /\ t.addr.val % Pow2(Bits(t.addr.fam) - t.len) # 0

\* The exclusion specs are all of that form.
C17_OnlySuchExclusions ==
    /\ exclude_addresses.some
    /\ exclude_addresses.list # <<>>
    /\ \A k \in 1 .. Len(exclude_addresses.list) : C17_HostBitsSet(exclude_addresses.list[k])

\* C17: an exclusion spec address/prefix-length with host bits set adds no
\* exclusion entry; the same text as a target expands to the surrounding
\* block; as an exclusion it leaves every target address in the result.
C17_StrictExclusionParse ==
    /\ (pc \in {"retain", "done"} /\ C17_OnlySuchExclusions) => excluded_cidrs = <<>>
    /\ (Returned /\ C17_OnlySuchExclusions) =>
          \A a \in Range(C3_Produced) : a \in Range(ips)
    /\ \A k \in 1 .. Len(parsed) :
          C17_HostBitsSet(addresses[k]) =>
             LET t == addresses[k]
                 size == Pow2(Bits(t.addr.fam) - t.len)
                 base == t.addr.val - (t.addr.val % size)
             IN  /\ Len(parsed[k]) = size
                 /\ \A j \in 1 .. size : parsed[k][j] = Ip(t.addr.fam, base + j - 1)

\* C17 witness: the same text with host bits set was the target and the
\* exclusion; its block was produced and returned whole.
C17_Witness ==
    /\ Returned
    /\ addresses = <<CidrTok(Ip("v4", 1), V4Bits - 1)>>
    /\ exclude_addresses = Some(addresses)
    /\ excluded_cidrs = <<>>
    /\ ips = <<Ip("v4", 0), Ip("v4", 1)>>

====
